---- MODULE Spec2Model ----
(***************************************************************************)
(* A model of the Kuzur interpreter (src/interpreter/kuzur-v5.py):         *)
(*   - the Environment scope chain (get / set / _has_in_chain),            *)
(*   - Function application and the statement handlers of the interpreter, *)
(*   - the lexer's token filter, the recursive-descent parser and the      *)
(*     tree-walking evaluator, as pure operators.                          *)
(*                                                                         *)
(* Two specifications:                                                     *)
(*   Spec     the environment machine: the interpreter's handlers acting   *)
(*            on the heap of environments, driven by any program over a    *)
(*            variable x and a function f (every sequence of assignments,  *)
(*            block entries, function definitions, calls and returns);     *)
(*   SpecRun  the pipeline  source -> tokens -> AST -> run  applied to a   *)
(*            bounded family of source texts.                              *)
(***************************************************************************)
EXTENDS Integers, Sequences, FiniteSets, TLC

VARIABLES
    envs,     \* heap of Environment objects: Seq of [parent, values]; parent = 0 is None
    stack,    \* the active scopes, innermost last: Seq of [env, kind]
    retval,   \* value carried by the last ReturnSignal / call result
    last,     \* the handler that ran last and what it was given
    lastset,  \* the last Assign or FuncDef statement: where, which name, which
              \* value, and the scopes of the chain that bound the name before it
    steps,    \* number of handlers run so far
    pc,       \* position of the pipeline: "src", "lexed", "parsed",
              \* "syntax_error", "done" ("idle" in the environment machine)
    case,     \* which program of the bounded family is being run
    prog,     \* the source text being run, as the regex matches of the lexer
    tokens,   \* Lexer.tokens
    ast,      \* result of Parser.parse
    result    \* outcome of Interpreter.run

vars == <<envs, stack, retval, last, lastset, steps, pc, case, prog, tokens, ast, result>>

(***************************************************************************)
(* Bounds                                                                  *)
(***************************************************************************)
MaxEnvs == 3        \* environments ever created in the environment machine
MaxInt == 1         \* integer literals 1..MaxInt of the environment machine
MaxSteps == 7       \* handlers run by the environment machine
MaxOperand == 4     \* operands 0..MaxOperand of the arithmetic programs
MaxFor == 3         \* start, end and pivot 0..MaxFor of the for-loop programs

(***************************************************************************)
(* Runtime values                                                          *)
(***************************************************************************)
IntV(n) == [k |-> "int", n |-> n]
NoneV == [k |-> "none"]
BuiltinV(name) == [k |-> "builtin", name |-> name]
\* a function that captures the global scope whatever scope defines it
FuncVGlobal(name, params, body, closure) ==
    [k |-> "fn", name |-> name, params |-> params, body |-> body, closure |-> 1]

FuncV(name, params, body, closure) ==
    [k |-> "fn", name |-> name, params |-> params, body |-> body, closure |-> closure]

Undefined == [k |-> "NameError"]

(***************************************************************************)
(* Environment                                                             *)
(***************************************************************************)
NewEnvironment(parent) == [parent |-> parent, values |-> << >>]

Bound(E, e, name) == name \in DOMAIN E[e].values

Store(E, e, name, value) ==
    [E EXCEPT ![e].values =
        [n \in (DOMAIN E[e].values) \cup {name} |->
            IF n = name THEN value ELSE E[e].values[n]]]

RECURSIVE EnvGet(_, _, _)
EnvGet(E, e, name) ==
    IF Bound(E, e, name) THEN E[e].values[name]
    ELSE IF E[e].parent # 0 THEN EnvGet(E, E[e].parent, name)
    ELSE Undefined

RECURSIVE ChainHas(_, _, _)
ChainHas(E, env, name) ==
    IF env = 0 THEN FALSE
    ELSE IF Bound(E, env, name) THEN TRUE
    ELSE ChainHas(E, E[env].parent, name)

HasInChain(E, e, name) == ChainHas(E, E[e].parent, name)

\* a set that always binds in the scope it is called on
EnvSetLocal(E, e, name, value) == Store(E, e, name, value)

RECURSIVE EnvSet(_, _, _, _)
EnvSet(E, e, name, value) ==
    IF Bound(E, e, name) THEN Store(E, e, name, value)
    ELSE IF E[e].parent # 0 /\ HasInChain(E, e, name)
         THEN EnvSet(E, E[e].parent, name, value)
    ELSE Store(E, e, name, value)

\* Function.__call__, up to the start of the body: the new environment and
\* the binding of the parameters.
RECURSIVE BindParams(_, _, _, _)
BindParams(E, local, params, args) ==
    IF params = << >> THEN E
    ELSE BindParams(EnvSet(E, local, Head(params), Head(args)),
                    local, Tail(params), Tail(args))

CallEnter(E, fn, args) ==
    LET local == Len(E) + 1
    IN  BindParams(Append(E, NewEnvironment(fn.closure)), local, fn.params, args)

\* Interpreter.__init__ / _install_builtins
BuiltinNames == <<"print", "input", "len", "int", "str">>

RECURSIVE InstallBuiltins(_, _)
InstallBuiltins(E, names) ==
    IF names = << >> THEN E
    ELSE InstallBuiltins(EnvSet(E, 1, Head(names), BuiltinV(Head(names))), Tail(names))

GlobalsInit == InstallBuiltins(<<NewEnvironment(0)>>, BuiltinNames)

(***************************************************************************)
(* The environment machine                                                 *)
(***************************************************************************)
Names == {"x", "f"}        \* the identifiers of the program
AssignNames == {"x"}       \* those it assigns
FuncNames == {"f"}         \* those it defines functions as
ParamLists == {<< >>, <<"x">>}
Opaque == "body"     \* the body of a function of the environment machine:
                     \* its statements are the handlers that run after the call

Cur == stack[Len(stack)].env

Idle == [op |-> "none"]

\* the scopes on the chain of e, innermost first
RECURSIVE Chain(_, _)
Chain(E, e) == IF e = 0 THEN << >> ELSE <<e>> \o Chain(E, E[e].parent)

ChainSet(E, e) == {Chain(E, e)[i] : i \in 1..Len(Chain(E, e))}

\* the scopes of the chain of e that bind name
Binders(E, e, name) == {s \in ChainSet(E, e) : Bound(E, s, name)}

SetRecord(how, name, v) ==
    [op |-> how, env |-> Cur, name |-> name, val |-> v,
     binders |-> Binders(envs, Cur, name)]

\* values an expression evaluated in the current scope can yield
Readable == {EnvGet(envs, Cur, n) : n \in {m \in Names : ChainHas(envs, Cur, m)}}
RValues == {IntV(n) : n \in 1..MaxInt} \cup Readable \cup {retval}

\* the pipeline variables while the environment machine runs
PipeIdle ==
    /\ pc = "idle"
    /\ case = [fam |-> "none"]
    /\ prog = << >>
    /\ tokens = << >>
    /\ ast = << >>
    /\ result = << >>

Init ==
    /\ envs = GlobalsInit
    /\ stack = <<[env |-> 1, kind |-> "top"]>>
    /\ retval = NoneV
    /\ last = Idle
    /\ lastset = Idle
    /\ steps = 0
    /\ PipeIdle

\* one more handler of the running program
Step ==
    /\ steps < MaxSteps
    /\ steps' = steps + 1
    /\ UNCHANGED <<pc, case, prog, tokens, ast, result>>

\* exec_stmt, Assign: val = eval_expr(...); env.set(name, val)
DoAssign(name, v) ==
    /\ Step
    /\ envs' = EnvSet(envs, Cur, name, v)
    /\ last' = [op |-> "assign", env |-> Cur, name |-> name, val |-> v]
    /\ lastset' = SetRecord("assign", name, v)
    /\ UNCHANGED <<stack, retval>>

\* exec_stmt, FuncDef: env.set(name, Function(name, params, body, env))
DoFuncDef(name, params) ==
    LET fn == FuncV(name, params, Opaque, Cur)
    IN  /\ Step
        /\ envs' = EnvSet(envs, Cur, name, fn)
        /\ last' = [op |-> "funcdef", env |-> Cur, name |-> name, val |-> fn]
        /\ lastset' = SetRecord("funcdef", name, fn)
        /\ UNCHANGED <<stack, retval>>

\* exec_stmt, Block / If / While / For / DoWhile: exec_block(body, Environment(env))
DoBlock ==
    /\ Step
    /\ Len(envs) < MaxEnvs
    /\ envs' = Append(envs, NewEnvironment(Cur))
    /\ stack' = Append(stack, [env |-> Len(envs) + 1, kind |-> "block"])
    /\ last' = [op |-> "block", env |-> Cur, new |-> Len(envs) + 1]
    /\ UNCHANGED <<retval, lastset>>

\* exec_block runs off the end of a block
DoBlockEnd ==
    /\ Step
    /\ stack[Len(stack)].kind = "block"
    /\ stack' = SubSeq(stack, 1, Len(stack) - 1)
    /\ last' = [op |-> "blockend", env |-> Cur]
    /\ UNCHANGED <<envs, retval, lastset>>

\* eval_expr, Call of a user function: Function.__call__ up to the body
DoCall(name, args) ==
    LET fn == EnvGet(envs, Cur, name)
    IN  /\ Step
        /\ ChainHas(envs, Cur, name)
        /\ fn.k = "fn"
        /\ Len(args) = Len(fn.params)
        /\ Len(envs) < MaxEnvs
        /\ envs' = CallEnter(envs, fn, args)
        /\ stack' = Append(stack, [env |-> Len(envs) + 1, kind |-> "call", fn |-> fn])
        /\ last' = [op |-> "call", env |-> Cur, fn |-> fn, args |-> args,
                    new |-> Len(envs) + 1]
        /\ UNCHANGED <<retval, lastset>>

CallFrames == {i \in 1..Len(stack) : stack[i].kind = "call"}
InnermostCall == CHOOSE i \in CallFrames : \A j \in CallFrames : j <= i

\* exec_stmt, Return: raise ReturnSignal(v), caught by Function.__call__
DoReturn(v) ==
    /\ Step
    /\ CallFrames # {}
    /\ stack' = SubSeq(stack, 1, InnermostCall - 1)
    /\ retval' = v
    /\ last' = [op |-> "return", env |-> Cur, val |-> v]
    /\ UNCHANGED <<envs, lastset>>

\* the body of a function runs off its end: Function.__call__ returns None
DoCallEnd ==
    /\ Step
    /\ stack[Len(stack)].kind = "call"
    /\ stack' = SubSeq(stack, 1, Len(stack) - 1)
    /\ retval' = NoneV
    /\ last' = [op |-> "callend", env |-> Cur]
    /\ UNCHANGED <<envs, lastset>>

ArgLists == {<< >>} \cup {<<v>> : v \in RValues}

Next ==
    \/ \E name \in AssignNames, v \in RValues : DoAssign(name, v)
    \/ \E name \in FuncNames, params \in ParamLists : DoFuncDef(name, params)
    \/ DoBlock
    \/ DoBlockEnd
    \/ \E name \in Names, args \in ArgLists : DoCall(name, args)
    \/ \E v \in RValues : DoReturn(v)
    \/ DoCallEnd

Spec == Init /\ [][Next]_vars

(***************************************************************************)
(* Lexer.  A source text is the sequence of the matches master_pat finds   *)
(* in it, each match a lexeme; MatchKind is the group that matched.        *)
(***************************************************************************)
Rat(n, d) == [n |-> n, d |-> d]

\* NUMBER lexemes of the model and float(lexeme)
NumberValue ==
    ("0" :> Rat(0, 1)) @@ ("1" :> Rat(1, 1)) @@ ("2" :> Rat(2, 1)) @@
    ("3" :> Rat(3, 1)) @@ ("4" :> Rat(4, 1)) @@ ("5" :> Rat(5, 1)) @@
    ("6" :> Rat(6, 1)) @@ ("7" :> Rat(7, 1)) @@ ("8" :> Rat(8, 1)) @@
    ("9" :> Rat(9, 1)) @@ ("2.0" :> Rat(2, 1)) @@ ("0.5" :> Rat(1, 2)) @@
    ("2.5" :> Rat(5, 2))

\* STRING lexemes of the model and _unescape_string(lexeme), as characters
StringValue ==
    ("'x'" :> <<"x">>) @@ ("''" :> << >>) @@ ("'ab'" :> <<"a", "b">>)

OpLexemes ==
    {"==", "!=", "<=", ">=", "&&", "||", "+", "-", "*", "/", "%", "<", ">",
     "=", "!", "(", ")", ";", ",", "{", "}"}

CommentLexemes == {"// c"}

MatchKind(lx) ==
    IF lx \in DOMAIN NumberValue THEN "NUMBER"
    ELSE IF lx \in DOMAIN StringValue THEN "STRING"
    ELSE IF lx \in OpLexemes THEN "OP"
    ELSE IF lx = "\n" THEN "NEWLINE"
    ELSE IF lx = " " THEN "SKIP"
    ELSE IF lx \in CommentLexemes THEN "COMMENT"
    ELSE "IDENT"

\* value.upper() for the members of KEYWORDS
KEYWORDS ==
    ("if" :> "IF") @@ ("elif" :> "ELIF") @@ ("else" :> "ELSE") @@
    ("while" :> "WHILE") @@ ("for" :> "FOR") @@ ("do" :> "DO") @@
    ("func" :> "FUNC") @@ ("return" :> "RETURN") @@ ("true" :> "TRUE") @@
    ("false" :> "FALSE") @@ ("break" :> "BREAK") @@ ("continue" :> "CONTINUE")

Token(type, value, pos) == [type |-> type, value |-> value, pos |-> pos]

\* the token the loop body of _tokenize appends for match number pos
TokenOf(lx, pos) ==
    LET kind == MatchKind(lx)
    IN  IF kind = "IDENT" /\ lx \in DOMAIN KEYWORDS THEN Token(KEYWORDS[lx], lx, pos)
        ELSE IF kind = "STRING" THEN Token("STRING", StringValue[lx], pos)
        ELSE Token(kind, lx, pos)

\* the matches a tokenizer keeps when it discards the kinds in dropped
Kept(src, dropped) ==
    SelectSeq([i \in 1..Len(src) |-> i], LAMBDA i : MatchKind(src[i]) \notin dropped)

\* a tokenizer that also discards the NEWLINE matches
TokenizeNoNewline(src) ==
    LET kept == Kept(src, {"SKIP", "COMMENT", "NEWLINE"})
    IN  [j \in 1..Len(kept) |-> TokenOf(src[kept[j]], kept[j])]

\* Lexer._tokenize
Tokenize(src) ==
    LET kept == Kept(src, {"SKIP", "COMMENT"})
    IN  [j \in 1..Len(kept) |-> TokenOf(src[kept[j]], kept[j])]

\* Lexer.__init__
Lexer(src) == Tokenize(src) \o <<Token("EOF", "", Len(src) + 1)>>

(***************************************************************************)
(* AST nodes                                                               *)
(***************************************************************************)
NoneNode == [t |-> "None"]
Number(value) == [t |-> "Number", value |-> value]
String(value) == [t |-> "String", value |-> value]
Boolean(value) == [t |-> "Boolean", value |-> value]
Var(name) == [t |-> "Var", name |-> name]
Unary(op, right) == [t |-> "Unary", op |-> op, right |-> right]
Binary(left, op, right) == [t |-> "Binary", left |-> left, op |-> op, right |-> right]
Call(callee, args) == [t |-> "Call", callee |-> callee, args |-> args]
ExprStmt(expr) == [t |-> "ExprStmt", expr |-> expr]
Assign(name, expr) == [t |-> "Assign", name |-> name, expr |-> expr]
Block(statements) == [t |-> "Block", statements |-> statements]
If(branches, else_block) == [t |-> "If", branches |-> branches, else_block |-> else_block]
While(cond, body) == [t |-> "While", cond |-> cond, body |-> body]
For(var, start, end, body) ==
    [t |-> "For", var |-> var, start |-> start, end |-> end, body |-> body]
DoWhile(body, cond) == [t |-> "DoWhile", body |-> body, cond |-> cond]
FuncDef(name, params, body) ==
    [t |-> "FuncDef", name |-> name, params |-> params, body |-> body]
Return(expr) == [t |-> "Return", expr |-> expr]
BreakStmt == [t |-> "BreakStmt"]
ContinueStmt == [t |-> "ContinueStmt"]

(***************************************************************************)
(* Parser.  Every parsing operator takes the token list T and the lexer    *)
(* index i and yields either [ok |-> TRUE, node, i] or the exception       *)
(* raised, [ok |-> FALSE, err].                                            *)
(***************************************************************************)
PRECEDENCE ==
    ("||" :> 1) @@ ("&&" :> 2) @@ ("==" :> 3) @@ ("!=" :> 3) @@
    ("<" :> 4) @@ (">" :> 4) @@ ("<=" :> 4) @@ (">=" :> 4) @@
    ("+" :> 5) @@ ("-" :> 5) @@ ("*" :> 6) @@ ("/" :> 6) @@ ("%" :> 6)

Parsed(node, i) == [ok |-> TRUE, node |-> node, i |-> i]
Raise(err) == [ok |-> FALSE, err |-> err]

\* Lexer.peek at index i; past the EOF token the list has no element
Peek(T, i) == IF i <= Len(T) THEN T[i] ELSE Token("IndexError", "", 0)

IsOp(tok, value) == tok.type = "OP" /\ tok.value = value

\* Lexer.expect(t) at index i: the index after the token, or 0 when it raises
Expect(T, i, t) == IF Peek(T, i).type = t THEN i + 1 ELSE 0

\* the test of the RETURN branch of Parser.statement for an absent expression
ReturnEndsExpr(tok) == tok.type \in {"NEWLINE", "}", "EOF"}

\* Parser._is_assignment
IsAssignment(T, i) ==
    /\ Peek(T, i).type = "IDENT"
    /\ IsOp(Peek(T, i + 1), "=")

\* Lexer.match("NEWLINE") repeated while it succeeds
RECURSIVE SkipNewlines(_, _)
SkipNewlines(T, i) ==
    IF Peek(T, i).type = "NEWLINE" THEN SkipNewlines(T, i + 1) ELSE i

\* The methods of the parser call one another through Parser(method, args),
\* which stands for self.method(args).
RECURSIVE Parser(_, _)

\* Parser.expression: the primary, then the loop of calls and binary operators
Expression(T, i, prec) ==
    LET tok == Peek(T, i)
    IN  IF tok.type = "NUMBER" THEN Parser("ExprTail", <<T, Number(NumberValue[tok.value]), i + 1, prec>>)
        ELSE IF tok.type = "STRING" THEN Parser("ExprTail", <<T, String(tok.value), i + 1, prec>>)
        ELSE IF tok.type = "TRUE" THEN Parser("ExprTail", <<T, Boolean(TRUE), i + 1, prec>>)
        ELSE IF tok.type = "FALSE" THEN Parser("ExprTail", <<T, Boolean(FALSE), i + 1, prec>>)
        ELSE IF tok.type = "IDENT" THEN Parser("ExprTail", <<T, Var(tok.value), i + 1, prec>>)
        ELSE IF tok.type = "OP" /\ tok.value \in {"+", "-", "!"} THEN
            LET r == Parser("Expression", <<T, i + 1, 7>>)
            IN  IF ~r.ok THEN r
                ELSE Parser("ExprTail", <<T, Unary(tok.value, r.node), r.i, prec>>)
        ELSE IF IsOp(tok, "(") THEN
            LET r == Parser("Expression", <<T, i + 1, 0>>)
            IN  IF ~r.ok THEN r
                ELSE IF Expect(T, r.i, "OP") = 0 THEN Raise("SyntaxError")
                ELSE Parser("ExprTail", <<T, r.node, r.i + 1, prec>>)
        ELSE Raise("SyntaxError")

\* the `while True` loop of Parser.expression, left being parsed up to i
ExprTail(T, left, i, prec) ==
    LET nxt == Peek(T, i)
    IN  IF IsOp(nxt, "(") THEN
            LET a == IF IsOp(Peek(T, i + 1), ")") THEN Parsed(<< >>, i + 1)
                     ELSE Parser("ArgList", <<T, i + 1, << >>>>)
            IN  IF ~a.ok THEN a
                ELSE IF Expect(T, a.i, "OP") = 0 THEN Raise("SyntaxError")
                ELSE Parser("ExprTail", <<T, Call(left, a.node), a.i + 1, prec>>)
        ELSE IF nxt.type = "OP" /\ nxt.value \in DOMAIN PRECEDENCE THEN
            IF PRECEDENCE[nxt.value] <= prec THEN Parsed(left, i)
            ELSE LET r == Parser("Expression", <<T, i + 1, PRECEDENCE[nxt.value]>>)
                 IN  IF ~r.ok THEN r
                     ELSE Parser("ExprTail", <<T, Binary(left, nxt.value, r.node), r.i, prec>>)
        ELSE Parsed(left, i)

\* the argument loop of a call: expressions separated by ","
ArgList(T, i, acc) ==
    LET r == Parser("Expression", <<T, i, 0>>)
    IN  IF ~r.ok THEN r
        ELSE IF IsOp(Peek(T, r.i), ",") THEN Parser("ArgList", <<T, r.i + 1, Append(acc, r.node)>>)
        ELSE Parsed(Append(acc, r.node), r.i)

\* the parameter loop of Parser.func_def
RECURSIVE ParamList(_, _, _)
ParamList(T, i, acc) ==
    IF Expect(T, i, "IDENT") = 0 THEN Raise("SyntaxError")
    ELSE IF IsOp(Peek(T, i + 1), ",") THEN ParamList(T, i + 2, Append(acc, T[i].value))
    ELSE Parsed(Append(acc, T[i].value), i + 1)

\* "(" expression ")" as if_stmt, while_stmt and do_while_stmt read it: each
\* parenthesis is an expect("OP")
ParenCond(T, i) ==
    IF Expect(T, i, "OP") = 0 THEN Raise("SyntaxError")
    ELSE LET c == Parser("Expression", <<T, i + 1, 0>>)
         IN  IF ~c.ok THEN c
             ELSE IF Expect(T, c.i, "OP") = 0 THEN Raise("SyntaxError")
             ELSE Parsed(c.node, c.i + 1)

\* "(" expression ")" block
CondBlock(T, i) ==
    LET c == ParenCond(T, i)
    IN  IF ~c.ok THEN c
        ELSE LET b == Parser("ParseBlock", <<T, c.i>>)
             IN  IF ~b.ok THEN b ELSE Parsed(<<c.node, b.node>>, b.i)

\* the elif loop and the else part of Parser.if_stmt
ElifLoop(T, i, branches) ==
    IF Peek(T, i).type = "ELIF" THEN
        LET cb == CondBlock(T, i + 1)
        IN  IF ~cb.ok THEN cb ELSE Parser("ElifLoop", <<T, cb.i, Append(branches, cb.node)>>)
    ELSE IF Peek(T, i).type = "ELSE" THEN
        LET b == Parser("ParseBlock", <<T, i + 1>>)
        IN  IF ~b.ok THEN b ELSE Parsed(If(branches, b.node), b.i)
    ELSE Parsed(If(branches, NoneNode), i)

IfStmt(T, i) ==
    LET cb == CondBlock(T, i + 1)
    IN  IF ~cb.ok THEN cb ELSE Parser("ElifLoop", <<T, cb.i, <<cb.node>>>>)

WhileStmt(T, i) ==
    LET cb == CondBlock(T, i + 1)
    IN  IF ~cb.ok THEN cb ELSE Parsed(While(cb.node[1], cb.node[2]), cb.i)

ForStmt(T, i) ==
    IF Expect(T, i + 1, "OP") = 0 THEN Raise("SyntaxError")
    ELSE IF Expect(T, i + 2, "IDENT") = 0 THEN Raise("SyntaxError")
    ELSE IF Expect(T, i + 3, "OP") = 0 THEN Raise("SyntaxError")
    ELSE LET s == Parser("Expression", <<T, i + 4, 0>>)
         IN  IF ~s.ok THEN s
             ELSE IF Expect(T, s.i, "OP") = 0 THEN Raise("SyntaxError")
             ELSE LET e == Parser("Expression", <<T, s.i + 1, 0>>)
                  IN  IF ~e.ok THEN e
                      ELSE IF Expect(T, e.i, "OP") = 0 THEN Raise("SyntaxError")
                      ELSE LET b == Parser("ParseBlock", <<T, e.i + 1>>)
                           IN  IF ~b.ok THEN b
                               ELSE Parsed(For(T[i + 2].value, s.node, e.node, b.node), b.i)

DoWhileStmt(T, i) ==
    LET b == Parser("ParseBlock", <<T, i + 1>>)
    IN  IF ~b.ok THEN b
        ELSE IF Expect(T, b.i, "WHILE") = 0 THEN Raise("SyntaxError")
        ELSE LET c == ParenCond(T, b.i + 1)
             IN  IF ~c.ok THEN c ELSE Parsed(DoWhile(b.node, c.node), c.i)

FuncDefStmt(T, i) ==
    IF Expect(T, i + 1, "IDENT") = 0 THEN Raise("SyntaxError")
    ELSE IF Expect(T, i + 2, "OP") = 0 THEN Raise("SyntaxError")
    ELSE LET ps == IF IsOp(Peek(T, i + 3), ")") THEN Parsed(<< >>, i + 3)
                   ELSE ParamList(T, i + 3, << >>)
         IN  IF ~ps.ok THEN ps
             ELSE IF Expect(T, ps.i, "OP") = 0 THEN Raise("SyntaxError")
             ELSE LET b == Parser("ParseBlock", <<T, ps.i + 1>>)
                  IN  IF ~b.ok THEN b
                      ELSE Parsed(FuncDef(T[i + 1].value, ps.node, b.node), b.i)

\* Parser.statement
Statement(T, i) ==
    LET tok == Peek(T, i)
    IN  IF tok.type = "IF" THEN IfStmt(T, i)
        ELSE IF tok.type = "WHILE" THEN WhileStmt(T, i)
        ELSE IF tok.type = "FOR" THEN ForStmt(T, i)
        ELSE IF tok.type = "DO" THEN DoWhileStmt(T, i)
        ELSE IF tok.type = "FUNC" THEN FuncDefStmt(T, i)
        ELSE IF tok.type = "RETURN" THEN
            IF ReturnEndsExpr(Peek(T, i + 1)) THEN Parsed(Return(NoneNode), i + 1)
            ELSE LET r == Parser("Expression", <<T, i + 1, 0>>)
                 IN  IF ~r.ok THEN r ELSE Parsed(Return(r.node), r.i)
        ELSE IF tok.type = "BREAK" THEN Parsed(BreakStmt, i + 1)
        ELSE IF tok.type = "CONTINUE" THEN Parsed(ContinueStmt, i + 1)
        ELSE IF tok.type = "IDENT" /\ IsAssignment(T, i) THEN
            LET r == Parser("Expression", <<T, i + 2, 0>>)
            IN  IF ~r.ok THEN r ELSE Parsed(Assign(tok.value, r.node), r.i)
        ELSE LET r == Parser("Expression", <<T, i, 0>>)
             IN  IF ~r.ok THEN r ELSE Parsed(ExprStmt(r.node), r.i)

\* the statement loop of Parser.block
BlockLoop(T, i, stmts) ==
    IF IsOp(Peek(T, i), "}") THEN Parsed(Block(stmts), i + 1)
    ELSE IF Peek(T, i).type = "NEWLINE" THEN Parser("BlockLoop", <<T, i + 1, stmts>>)
    ELSE LET r == Parser("Statement", <<T, i>>)
         IN  IF ~r.ok THEN r
             ELSE Parser("BlockLoop", <<T, SkipNewlines(T, r.i), Append(stmts, r.node)>>)

\* Parser.block
ParseBlock(T, i) ==
    IF ~IsOp(Peek(T, i), "{") THEN Raise("SyntaxError")
    ELSE Parser("BlockLoop", <<T, i + 1, << >>>>)

\* self.method(args)
Parser(method, args) ==
    CASE method = "Expression" -> Expression(args[1], args[2], args[3])
      [] method = "ExprTail" -> ExprTail(args[1], args[2], args[3], args[4])
      [] method = "ArgList" -> ArgList(args[1], args[2], args[3])
      [] method = "Statement" -> Statement(args[1], args[2])
      [] method = "BlockLoop" -> BlockLoop(args[1], args[2], args[3])
      [] method = "ParseBlock" -> ParseBlock(args[1], args[2])
      [] method = "ElifLoop" -> ElifLoop(args[1], args[2], args[3])

\* Parser.parse
RECURSIVE ParseLoop(_, _, _)
ParseLoop(T, i, stmts) ==
    IF Peek(T, i).type = "EOF" THEN Parsed(Block(stmts), i)
    ELSE IF Peek(T, i).type = "NEWLINE" THEN ParseLoop(T, i + 1, stmts)
    ELSE LET r == Parser("Statement", <<T, i>>)
         IN  IF ~r.ok THEN r ELSE ParseLoop(T, r.i, Append(stmts, r.node))

Parse(T) == ParseLoop(T, 1, << >>)

(***************************************************************************)
(* Numbers.  A Python int is [k "int", n]; a Python float is the rational  *)
(* n/d in lowest terms with d > 0 (exact: the model draws small literals,  *)
(* for which the IEEE result of one operation is the rational result, up   *)
(* to the rounding of non-terminating quotients, which no operator here    *)
(* reads back except StrOf).                                               *)
(***************************************************************************)
FloatV(n, d) == [k |-> "float", n |-> n, d |-> d]
StrV(s) == [k |-> "str", s |-> s]
BoolV(b) == [k |-> "bool", b |-> b]

Abs(n) == IF n < 0 THEN -n ELSE n

RECURSIVE Gcd(_, _)
Gcd(a, b) == IF b = 0 THEN a ELSE Gcd(b, a % b)

\* n/d in lowest terms, d > 0
Reduce(n, d) ==
    LET g == Gcd(Abs(n), Abs(d))
        sg == IF d < 0 THEN -1 ELSE 1
    IN  Rat(sg * (n \div g), (sg * d) \div g)

FloorDiv(a, b) == IF b > 0 THEN a \div b ELSE (-a) \div (-b)

IsNum(v) == v.k \in {"int", "float", "bool"}
IsFloat(v) == v.k = "float"

\* the numeric value of an int, a float or a bool (bool is a subclass of int)
NumOf(v) ==
    IF v.k = "int" THEN Rat(v.n, 1)
    ELSE IF v.k = "bool" THEN Rat(IF v.b THEN 1 ELSE 0, 1)
    ELSE Rat(v.n, v.d)

\* the Python number of value q: a float when an operand was a float
MkNum(q, float) == IF float THEN FloatV(q.n, q.d) ELSE IntV(q.n)

RatAdd(a, b) == Reduce(a.n * b.d + b.n * a.d, a.d * b.d)
RatSub(a, b) == Reduce(a.n * b.d - b.n * a.d, a.d * b.d)
RatMul(a, b) == Reduce(a.n * b.n, a.d * b.d)
RatDiv(a, b) == Reduce(a.n * b.d, a.d * b.n)
RatFloor(a) == FloorDiv(a.n, a.d)
\* Python's %: a - b * floor(a / b)
RatMod(a, b) == RatSub(a, RatMul(b, Rat(RatFloor(RatDiv(a, b)), 1)))
RatLess(a, b) == a.n * b.d < b.n * a.d

(***************************************************************************)
(* str(value), as a sequence of characters                                 *)
(***************************************************************************)
MaxFracDigits == 16     \* fractional digits StrOf writes for a float

Digits == <<"0", "1", "2", "3", "4", "5", "6", "7", "8", "9">>

RECURSIVE NatStr(_)
NatStr(n) == IF n < 10 THEN <<Digits[n + 1]>> ELSE NatStr(n \div 10) \o <<Digits[(n % 10) + 1]>>

IntStr(n) == IF n < 0 THEN <<"-">> \o NatStr(-n) ELSE NatStr(n)

\* the digits of rem/d after the decimal point, at most left of them
RECURSIVE FracStr(_, _, _)
FracStr(rem, d, left) ==
    IF rem = 0 \/ left = 0 THEN << >>
    ELSE <<Digits[((rem * 10) \div d) + 1]>> \o FracStr((rem * 10) % d, d, left - 1)

\* repr of a float: an integral float keeps its ".0"
FloatStr(n, d) ==
    IF d = 1 THEN IntStr(n) \o <<".", "0">>
    ELSE (IF n < 0 THEN <<"-">> ELSE << >>) \o NatStr(Abs(n) \div d) \o <<".">>
         \o FracStr(Abs(n) % d, d, MaxFracDigits)

\* str(value)
StrOf(v) ==
    IF v.k = "int" THEN IntStr(v.n)
    ELSE IF v.k = "float" THEN FloatStr(v.n, v.d)
    ELSE IF v.k = "str" THEN v.s
    ELSE IF v.k = "bool" THEN (IF v.b THEN <<"T", "r", "u", "e">> ELSE <<"F", "a", "l", "s", "e">>)
    ELSE IF v.k = "none" THEN <<"N", "o", "n", "e">>
    ELSE <<"<", v.k, ">">>       \* an object: its repr holds an address

(***************************************************************************)
(* Operators of eval_expr                                                  *)
(***************************************************************************)
Val(v) == [ok |-> TRUE, val |-> v]
Exc(err) == [ok |-> FALSE, err |-> err]

\* Interpreter._truthy: bool(value)
Truthy(v) ==
    IF v.k = "bool" THEN v.b
    ELSE IF v.k \in {"int", "float"} THEN v.n # 0
    ELSE IF v.k = "str" THEN v.s # << >>
    ELSE IF v.k = "none" THEN FALSE
    ELSE TRUE

\* characters in code-point order, for the ordering of strings
Alphabet ==
    <<" ", "-", ".", "0", "1", "2", "3", "4", "5", "6", "7", "8", "9", "<", "=", ">",
      "F", "N", "T", "a", "b", "c", "d", "e", "f", "g", "h", "i", "j", "k", "l", "m",
      "n", "o", "p", "q", "r", "s", "t", "u", "v", "w", "x", "y", "z">>
Ord(c) == CHOOSE i \in 1..Len(Alphabet) : Alphabet[i] = c

RECURSIVE SeqLess(_, _)
SeqLess(a, b) ==
    IF b = << >> THEN FALSE
    ELSE IF a = << >> THEN TRUE
    ELSE IF Head(a) = Head(b) THEN SeqLess(Tail(a), Tail(b))
    ELSE Ord(Head(a)) < Ord(Head(b))

\* l == r
ValEq(l, r) ==
    IF IsNum(l) /\ IsNum(r) THEN NumOf(l).n * NumOf(r).d = NumOf(r).n * NumOf(l).d
    ELSE IF l.k # r.k THEN FALSE
    ELSE l = r

\* l < r, defined on two numbers and on two strings
ValLess(l, r) ==
    IF IsNum(l) /\ IsNum(r) THEN Val(BoolV(RatLess(NumOf(l), NumOf(r))))
    ELSE IF l.k = "str" /\ r.k = "str" THEN Val(BoolV(SeqLess(l.s, r.s)))
    ELSE Exc("TypeError")

RECURSIVE Repeat(_, _)
Repeat(s, n) == IF n <= 0 THEN << >> ELSE s \o Repeat(s, n - 1)

\* l / r: true division, always a float
TrueDiv(l, r) ==
    IF ~(IsNum(l) /\ IsNum(r)) THEN Exc("TypeError")
    ELSE IF NumOf(r).n = 0 THEN Exc("ZeroDivisionError")
    ELSE Val(MkNum(RatDiv(NumOf(l), NumOf(r)), TRUE))

\* the Binary branch of eval_expr, given the values of the operands
BinaryOp(op, l, r) ==
    LET num == IsNum(l) /\ IsNum(r)
        fl == IsFloat(l) \/ IsFloat(r)
        a == NumOf(l)
        b == NumOf(r)
    IN  IF op = "+" THEN
            IF l.k = "str" \/ r.k = "str" THEN Val(StrV(StrOf(l) \o StrOf(r)))
            ELSE IF num THEN Val(MkNum(RatAdd(a, b), fl))
            ELSE Exc("TypeError")
        ELSE IF op = "-" THEN
            IF num THEN Val(MkNum(RatSub(a, b), fl)) ELSE Exc("TypeError")
        ELSE IF op = "*" THEN
            IF num THEN Val(MkNum(RatMul(a, b), fl))
            ELSE IF l.k = "str" /\ r.k \in {"int", "bool"} THEN Val(StrV(Repeat(l.s, b.n)))
            ELSE IF r.k = "str" /\ l.k \in {"int", "bool"} THEN Val(StrV(Repeat(r.s, a.n)))
            ELSE Exc("TypeError")
        ELSE IF op = "/" THEN TrueDiv(l, r)
        ELSE IF op = "%" THEN
            IF ~num THEN Exc("TypeError")    \* a str without "%" formats nothing
            ELSE IF b.n = 0 THEN Exc("ZeroDivisionError")
            ELSE Val(MkNum(RatMod(a, b), fl))
        ELSE IF op = "==" THEN Val(BoolV(ValEq(l, r)))
        ELSE IF op = "!=" THEN Val(BoolV(~ValEq(l, r)))
        ELSE IF op = "<" THEN ValLess(l, r)
        ELSE IF op = ">" THEN ValLess(r, l)
        ELSE IF op = "<=" THEN
            LET g == ValLess(r, l) IN IF g.ok THEN Val(BoolV(~g.val.b)) ELSE g
        ELSE IF op = ">=" THEN
            LET g == ValLess(l, r) IN IF g.ok THEN Val(BoolV(~g.val.b)) ELSE g
        ELSE IF op = "&&" THEN Val(BoolV(Truthy(l) /\ Truthy(r)))
        ELSE Val(BoolV(Truthy(l) \/ Truthy(r)))

\* the Unary branch of eval_expr
UnaryOp(op, r) ==
    IF op = "!" THEN Val(BoolV(~Truthy(r)))
    ELSE IF ~IsNum(r) THEN Exc("TypeError")
    ELSE IF op = "-" THEN Val(MkNum(Rat(-NumOf(r).n, NumOf(r).d), IsFloat(r)))
    ELSE Val(MkNum(NumOf(r), IsFloat(r)))

\* the Number branch of eval_expr: int(v) if float(v).is_integer() else v
NumberValueOf(q) == IF q.d = 1 THEN IntV(q.n) ELSE FloatV(q.n, q.d)

(***************************************************************************)
(* Interpreter.  The state st threaded through evaluation is the heap of   *)
(* environments and the lines written to stdout.  Every operator yields    *)
(* [st, sig, val]: sig is "ok", or the exception that is propagating:      *)
(* "return" (ReturnSignal, val its value), "break", "continue", or         *)
(* "error" (val the name of the Python exception).                         *)
(***************************************************************************)
Res(st, sig, val) == [st |-> st, sig |-> sig, val |-> val]
Ok(st, val) == Res(st, "ok", val)
Err(st, err) == Res(st, "error", err)

StateInit == [envs |-> GlobalsInit, out |-> << >>]

\* Environment(parent), allocated in the heap of st
WithNewEnv(st, parent) == [st EXCEPT !.envs = Append(@, NewEnvironment(parent))]
NewId(st) == Len(st.envs) + 1

\* the separator print puts between its arguments
RECURSIVE JoinStr(_)
JoinStr(args) ==
    IF args = << >> THEN << >>
    ELSE IF Len(args) = 1 THEN StrOf(args[1])
    ELSE StrOf(args[1]) \o <<" ">> \o JoinStr(Tail(args))

IsDigits(chars) == chars # << >> /\ \A i \in 1..Len(chars) : chars[i] \in {Digits[j] : j \in 1..10}

RECURSIVE DigitsValue(_)
DigitsValue(chars) ==
    IF chars = << >> THEN 0
    ELSE 10 * DigitsValue(SubSeq(chars, 1, Len(chars) - 1))
         + ((CHOOSE j \in 1..10 : Digits[j] = chars[Len(chars)]) - 1)

\* the built-ins of _install_builtins; stdin of the model is at end of file
\* and int() reads a str of decimal digits only
CallBuiltin(st, name, args) ==
    IF name = "print" THEN Ok([st EXCEPT !.out = Append(@, JoinStr(args))], NoneV)
    ELSE IF name = "input" THEN Err(st, "EOFError")
    ELSE IF args = << >> THEN Err(st, "IndexError")
    ELSE IF name = "len" THEN Ok(st, IntV(Len(StrOf(args[1]))))
    ELSE IF name = "str" THEN Ok(st, StrV(StrOf(args[1])))
    ELSE \* int(float(args[0])): truncation toward zero
         IF IsNum(args[1]) THEN
            LET q == NumOf(args[1])
            IN  Ok(st, IntV(IF q.n < 0 THEN -(Abs(q.n) \div q.d) ELSE q.n \div q.d))
         ELSE IF args[1].k = "str" THEN
            IF IsDigits(args[1].s) THEN Ok(st, IntV(DigitsValue(args[1].s)))
            ELSE Err(st, "ValueError")
         ELSE Err(st, "TypeError")

\* The methods of the interpreter call one another through
\* Interpreter(method, args), which stands for self.method(args).
RECURSIVE Interpreter(_, _)

\* Function.__call__
CallFunction(st, fn, args) ==
    IF Len(args) # Len(fn.params) THEN Err(st, "TypeError")
    ELSE LET local == NewId(st)
             st1 == [st EXCEPT !.envs = CallEnter(st.envs, fn, args)]
             r == Interpreter("ExecBlock", <<st1, local, fn.body.statements>>)
         IN  IF r.sig = "return" THEN Ok(r.st, r.val)
             ELSE IF r.sig = "ok" THEN Ok(r.st, NoneV)
             ELSE r

\* [self.eval_expr(env, a) for a in e.args], left to right
EvalArgs(st, env, args, acc) ==
    IF args = << >> THEN Ok(st, acc)
    ELSE LET r == Interpreter("EvalExpr", <<st, env, Head(args)>>)
         IN  IF r.sig # "ok" THEN r
             ELSE Interpreter("EvalArgs", <<r.st, env, Tail(args), Append(acc, r.val)>>)

\* Interpreter.eval_expr
EvalExpr(st, env, e) ==
    IF e.t = "Number" THEN Ok(st, NumberValueOf(e.value))
    ELSE IF e.t = "String" THEN Ok(st, StrV(e.value))
    ELSE IF e.t = "Boolean" THEN Ok(st, BoolV(e.value))
    ELSE IF e.t = "Var" THEN
        IF ChainHas(st.envs, env, e.name) THEN Ok(st, EnvGet(st.envs, env, e.name))
        ELSE Err(st, "NameError")
    ELSE IF e.t = "Unary" THEN
        LET r == Interpreter("EvalExpr", <<st, env, e.right>>)
        IN  IF r.sig # "ok" THEN r
            ELSE LET u == UnaryOp(e.op, r.val)
                 IN  IF u.ok THEN Ok(r.st, u.val) ELSE Err(r.st, u.err)
    ELSE IF e.t = "Binary" THEN
        LET l == Interpreter("EvalExpr", <<st, env, e.left>>)
        IN  IF l.sig # "ok" THEN l
            ELSE LET r == Interpreter("EvalExpr", <<l.st, env, e.right>>)
                 IN  IF r.sig # "ok" THEN r
                     ELSE LET b == BinaryOp(e.op, l.val, r.val)
                          IN  IF b.ok THEN Ok(r.st, b.val) ELSE Err(r.st, b.err)
    ELSE \* Call
        LET f == Interpreter("EvalExpr", <<st, env, e.callee>>)
        IN  IF f.sig # "ok" THEN f
            ELSE IF f.val.k \notin {"fn", "builtin"} THEN Err(f.st, "TypeError")
            ELSE LET a == Interpreter("EvalArgs", <<f.st, env, e.args, << >>>>)
                 IN  IF a.sig # "ok" THEN a
                     ELSE IF f.val.k = "builtin" THEN CallBuiltin(a.st, f.val.name, a.val)
                     ELSE Interpreter("CallFunction", <<a.st, f.val, a.val>>)

\* exec_block(blk, Environment(env))
ExecScoped(st, env, blk) == Interpreter("ExecBlock", <<WithNewEnv(st, env), NewId(st), blk.statements>>)

\* the If branch of exec_stmt, from branch number i on
ExecIf(st, env, s, i) ==
    IF i > Len(s.branches) THEN
        IF s.else_block # NoneNode THEN ExecScoped(st, env, s.else_block)
        ELSE Ok(st, NoneV)
    ELSE LET c == Interpreter("EvalExpr", <<st, env, s.branches[i][1]>>)
         IN  IF c.sig # "ok" THEN c
             ELSE IF Truthy(c.val) THEN ExecScoped(c.st, env, s.branches[i][2])
             ELSE Interpreter("ExecIf", <<c.st, env, s, i + 1>>)

\* the While branch of exec_stmt
WhileLoop(st, env, s) ==
    LET c == Interpreter("EvalExpr", <<st, env, s.cond>>)
    IN  IF c.sig # "ok" THEN c
        ELSE IF ~Truthy(c.val) THEN Ok(c.st, NoneV)
        ELSE LET r == ExecScoped(c.st, env, s.body)
             IN  IF r.sig = "break" THEN Ok(r.st, NoneV)
                 ELSE IF r.sig \in {"ok", "continue"} THEN Interpreter("WhileLoop", <<r.st, env, s>>)
                 ELSE r

\* Python's l + 1 on the loop variable: numbers only
PyIncrement(v) ==
    IF IsNum(v) THEN Val(MkNum(RatAdd(NumOf(v), Rat(1, 1)), IsFloat(v)))
    ELSE Exc("TypeError")

\* a for loop that stops one iteration early: var < end
RECURSIVE ForLoopExclusive(_, _, _, _)
ForLoopExclusive(st, env, s, end) ==
    LET t == BinaryOp("<", EnvGet(st.envs, env, s.var), end)
    IN  IF ~t.ok THEN Err(st, t.err)
        ELSE IF ~Truthy(t.val) THEN Ok(st, NoneV)
        ELSE LET r == ExecScoped(st, env, s.body)
             IN  IF r.sig = "break" THEN Ok(r.st, NoneV)
                 ELSE IF r.sig \in {"ok", "continue"} THEN
                     LET n == PyIncrement(EnvGet(r.st.envs, env, s.var))
                     IN  IF ~n.ok THEN Err(r.st, n.err)
                         ELSE ForLoopExclusive(
                                 [r.st EXCEPT !.envs = EnvSet(@, env, s.var, n.val)],
                                 env, s, end)
                 ELSE r

\* the loop of the For branch of exec_stmt; end is the value of s.end
ForLoop(st, env, s, end) ==
    LET t == BinaryOp("<=", EnvGet(st.envs, env, s.var), end)
    IN  IF ~t.ok THEN Err(st, t.err)
        ELSE IF ~Truthy(t.val) THEN Ok(st, NoneV)
        ELSE LET r == ExecScoped(st, env, s.body)
             IN  IF r.sig = "break" THEN Ok(r.st, NoneV)
                 ELSE IF r.sig \in {"ok", "continue"} THEN
                     LET n == PyIncrement(EnvGet(r.st.envs, env, s.var))
                     IN  IF ~n.ok THEN Err(r.st, n.err)
                         ELSE Interpreter("ForLoop", <<[r.st EXCEPT !.envs = EnvSet(@, env, s.var, n.val)],
                                      env, s, end>>)
                 ELSE r

\* the DoWhile branch of exec_stmt
DoWhileLoop(st, env, s) ==
    LET r == ExecScoped(st, env, s.body)
    IN  IF r.sig = "break" THEN Ok(r.st, NoneV)
        ELSE IF r.sig \in {"ok", "continue"} THEN
            LET c == Interpreter("EvalExpr", <<r.st, env, s.cond>>)
            IN  IF c.sig # "ok" THEN c
                ELSE IF ~Truthy(c.val) THEN Ok(c.st, NoneV)
                ELSE Interpreter("DoWhileLoop", <<c.st, env, s>>)
        ELSE r

\* Interpreter.exec_stmt
ExecStmt(st, env, s) ==
    IF s.t = "ExprStmt" THEN
        LET r == Interpreter("EvalExpr", <<st, env, s.expr>>)
        IN  IF r.sig # "ok" THEN r ELSE Ok(r.st, NoneV)
    ELSE IF s.t = "Assign" THEN
        LET r == Interpreter("EvalExpr", <<st, env, s.expr>>)
        IN  IF r.sig # "ok" THEN r
            ELSE Ok([r.st EXCEPT !.envs = EnvSet(@, env, s.name, r.val)], NoneV)
    ELSE IF s.t = "Block" THEN ExecScoped(st, env, s)
    ELSE IF s.t = "If" THEN Interpreter("ExecIf", <<st, env, s, 1>>)
    ELSE IF s.t = "While" THEN Interpreter("WhileLoop", <<st, env, s>>)
    ELSE IF s.t = "For" THEN
        LET a == Interpreter("EvalExpr", <<st, env, s.start>>)
        IN  IF a.sig # "ok" THEN a
            ELSE LET b == Interpreter("EvalExpr", <<a.st, env, s.end>>)
                 IN  IF b.sig # "ok" THEN b
                     ELSE Interpreter("ForLoop", <<[b.st EXCEPT !.envs = EnvSet(@, env, s.var, a.val)],
                                  env, s, b.val>>)
    ELSE IF s.t = "DoWhile" THEN Interpreter("DoWhileLoop", <<st, env, s>>)
    ELSE IF s.t = "FuncDef" THEN
        Ok([st EXCEPT !.envs = EnvSet(@, env, s.name, FuncV(s.name, s.params, s.body, env))],
           NoneV)
    ELSE IF s.t = "Return" THEN
        IF s.expr = NoneNode THEN Res(st, "return", NoneV)
        ELSE LET r == Interpreter("EvalExpr", <<st, env, s.expr>>)
             IN  IF r.sig # "ok" THEN r ELSE Res(r.st, "return", r.val)
    ELSE IF s.t = "BreakStmt" THEN Res(st, "break", NoneV)
    ELSE IF s.t = "ContinueStmt" THEN Res(st, "continue", NoneV)
    ELSE Err(st, "RuntimeError")

\* Interpreter.exec_block
ExecBlock(st, env, stmts) ==
    IF stmts = << >> THEN Ok(st, NoneV)
    ELSE LET r == Interpreter("ExecStmt", <<st, env, Head(stmts)>>)
         IN  IF r.sig # "ok" THEN r ELSE Interpreter("ExecBlock", <<r.st, env, Tail(stmts)>>)

\* self.method(args)
Interpreter(method, args) ==
    CASE method = "EvalExpr" -> EvalExpr(args[1], args[2], args[3])
      [] method = "EvalArgs" -> EvalArgs(args[1], args[2], args[3], args[4])
      [] method = "CallFunction" -> CallFunction(args[1], args[2], args[3])
      [] method = "ExecStmt" -> ExecStmt(args[1], args[2], args[3])
      [] method = "ExecBlock" -> ExecBlock(args[1], args[2], args[3])
      [] method = "ExecIf" -> ExecIf(args[1], args[2], args[3], args[4])
      [] method = "WhileLoop" -> WhileLoop(args[1], args[2], args[3])
      [] method = "ForLoop" -> ForLoop(args[1], args[2], args[3], args[4])
      [] method = "DoWhileLoop" -> DoWhileLoop(args[1], args[2], args[3])

\* the exception Interpreter.run ends with ("ok" when it returns) and the
\* lines it printed
RunOutcome(r) ==
    [status |-> IF r.sig = "ok" THEN "ok"
                ELSE IF r.sig = "return" THEN "ReturnSignal"
                ELSE IF r.sig = "break" THEN "BreakSignal"
                ELSE IF r.sig = "continue" THEN "ContinueSignal"
                ELSE r.val,
     out |-> r.st.out,
     envs |-> r.st.envs]

\* Interpreter.run after parsing: exec_block(ast, self.globals)
Run(tree) == RunOutcome(Interpreter("ExecBlock", <<StateInit, 1, tree.statements>>))

(***************************************************************************)
(* The programs of the pipeline, as lexemes; Text puts a space (a SKIP     *)
(* match) between every two of them.                                       *)
(***************************************************************************)
NL == "\n"
NumLex(n) == Digits[n + 1]

Text(lexemes) ==
    IF lexemes = << >> THEN << >>
    ELSE [i \in 1..(2 * Len(lexemes) - 1) |->
            IF i % 2 = 1 THEN lexemes[(i + 1) \div 2] ELSE " "]

RECURSIVE Flatten(_)
Flatten(segments) ==
    IF segments = << >> THEN << >> ELSE Head(segments) \o Flatten(Tail(segments))

\* func g() { sig }, then a loop of three iterations whose body prints the
\* counter, calls g and prints 0; then print(9)
SignalSource(sig, loop) ==
    LET g == <<"func", "g", "(", ")", "{", sig, NL, "}", NL>>
        body == <<"print", "(", "i", ")", NL, "g", "(", ")", NL,
                  "print", "(", "0", ")", NL, "}">>
        after == <<NL, "print", "(", "9", ")">>
        step == <<"i", "=", "i", "+", "1", NL>>
    IN  IF loop = "while" THEN
            g \o <<"i", "=", "0", NL, "while", "(", "i", "<", "3", ")", "{">>
              \o step \o body \o after
        ELSE IF loop = "for" THEN
            g \o <<"for", "(", "i", "=", "1", ";", "3", ")", "{">> \o body \o after
        ELSE IF loop = "do" THEN
            g \o <<"i", "=", "0", NL, "do", "{">> \o step \o body
              \o <<"while", "(", "i", "<", "3", ")">> \o after
        ELSE IF loop = "call" THEN g \o <<"g", "(", ")">> \o after
        ELSE <<sig>> \o after

BareReturnSource(end) ==
    IF end = "brace" THEN
        <<"func", "f", "(", ")", "{", "return", "}", NL, "print", "(", "f", "(", ")", ")">>
    ELSE IF end = "newline" THEN
        <<"func", "f", "(", ")", "{", "return", NL, "}", NL, "print", "(", "f", "(", ")", ")">>
    ELSE <<"print", "(", "1", ")", NL, "return">>

ArithSource(op, a, b, use) ==
    LET e == <<NumLex(a), op, NumLex(b)>>
    IN  IF use = "str" THEN <<"print", "(", "str", "(">> \o e \o <<")", ")">>
        ELSE IF use = "concat" THEN <<"print", "(", "'x'", "+", "(">> \o e \o <<")", ")">>
        ELSE <<"print", "(", "str", "(", "(">> \o e \o <<")", "+", "1", ")", ")">>

ForSource(mode, s, e, k) ==
    LET head == <<"for", "(", "i", "=", NumLex(s), ";", NumLex(e), ")", "{">>
        printi == <<"print", "(", "i", ")">>
        tail == <<NL, "}", NL>> \o printi
        test(sig) == <<"if", "(", "i", "==", NumLex(k), ")", "{", sig, "}", NL>>
    IN  IF mode = "plain" THEN head \o printi \o tail \o <<"// c">>
        ELSE IF mode = "continue" THEN head \o test("continue") \o printi \o tail
        ELSE IF mode = "break" THEN head \o test("break") \o printi \o tail
        ELSE IF mode = "once" THEN
            <<"c", "=", "0", NL,
              "func", "a", "(", ")", "{", "c", "=", "c", "+", "1", NL,
                  "return", NumLex(s), NL, "}", NL,
              "func", "b", "(", ")", "{", "c", "=", "c", "+", "5", NL,
                  "return", NumLex(e), NL, "}", NL,
              "for", "(", "i", "=", "a", "(", ")", ";", "b", "(", ")", ")", "{">>
            \o printi \o <<NL, "}", NL, "print", "(", "c", ")">>
        ELSE IF mode = "endvar" THEN
            <<"n", "=", NumLex(e), NL, "for", "(", "i", "=", NumLex(s), ";", "n", ")", "{",
              "n", "=", "0", NL>> \o printi \o tail
        ELSE \* "scope": a later iteration reads what an earlier one bound
            head \o <<"if", "(", "i", ">", NumLex(s), ")", "{", "print", "(", "t", ")", "}", NL,
                      "t", "=", "i", NL, "}">>

\* end-to-end scenario 3, as the spec writes it
Scenario3Source ==
    <<"for", "(", "i", "=", "1", ";", "5", ")", "{",
      "if", "(", "i", "==", "3", ")", "{", "continue", "}", ";",
      "if", "(", "i", "==", "5", ")", "{", "break", "}", ";",
      "print", "(", "i", ")", "}">>

\* programs cut into segments: the cuts, the start and the end are the
\* places between two statements, after the "{" of a block and before its "}"
NewlineBases ==
    << << <<"x", "=", "1">>, <<"if", "(", "x", ")", "{">>, <<"y", "=", "1">>,
          <<"}", "else", "{">>, <<"y", "=", "2">>, <<"}">>, <<"print", "(", "y", ")">> >>,
       << <<"func", "f", "(", "a", ")", "{">>, <<"x", "=", "a", "+", "1">>,
          <<"return", "x">>, <<"}">>, <<"print", "(", "f", "(", "2", ")", ")">> >>,
       << <<"x", "=", "2">>, <<"while", "(", "x", ")", "{">>, <<"x", "=", "0">>,
          <<"}">>, <<"do", "{">>, <<"break">>, <<"}", "while", "(", "x", ")">> >>,
       << <<"func", "f", "(", ")", "{">>, <<"return">>, <<NL>>, <<"}">>,
          <<"print", "(", "f", "(", ")", ")">> >> >>

NewlineBase(b) == Flatten(NewlineBases[b])

RECURSIVE Cuts(_, _)
Cuts(segments, at) ==
    IF segments = << >> THEN {at}
    ELSE {at} \cup Cuts(Tail(segments), at + Len(Head(segments)))

\* the numbers j such that a newline after lexeme j falls between statements
Gaps(b) == Cuts(NewlineBases[b], 0)

InsertAfter(lexemes, j, lx) ==
    SubSeq(lexemes, 1, j) \o <<lx>> \o SubSeq(lexemes, j + 1, Len(lexemes))

NewlineSource(b, at) ==
    IF at < 0 THEN NewlineBase(b) ELSE InsertAfter(NewlineBase(b), at, NL)

ArithOps == {"+", "-", "*", "/", "%"}

Cases ==
    {[fam |-> "signal", sig |-> g, loop |-> l] :
        g \in {"break", "continue"}, l \in {"while", "for", "do", "call", "none"}}
    \cup {[fam |-> "bare_return", end |-> e] : e \in {"brace", "newline", "eof"}}
    \cup {[fam |-> "arith", op |-> o, a |-> a, b |-> b, use |-> u] :
            o \in ArithOps, a \in 0..MaxOperand, b \in 0..MaxOperand,
            u \in {"str", "concat", "arith"}}
    \cup {[fam |-> "for", mode |-> m, s |-> s, e |-> e, k |-> k] :
            m \in {"continue", "break"}, s \in 0..MaxFor, e \in 0..MaxFor, k \in 0..MaxFor}
    \cup {[fam |-> "for", mode |-> m, s |-> s, e |-> e, k |-> 0] :
            m \in {"plain", "once", "endvar", "scope"}, s \in 0..MaxFor, e \in 0..MaxFor}
    \cup {[fam |-> "scenario3"]}
    \cup UNION {{[fam |-> "newline", base |-> b, at |-> j] : j \in -1..Len(NewlineBase(b))} :
                    b \in 1..Len(NewlineBases)}

SourceOf(c) ==
    IF c.fam = "signal" THEN SignalSource(c.sig, c.loop)
    ELSE IF c.fam = "bare_return" THEN BareReturnSource(c.end)
    ELSE IF c.fam = "arith" THEN ArithSource(c.op, c.a, c.b, c.use)
    ELSE IF c.fam = "for" THEN ForSource(c.mode, c.s, c.e, c.k)
    ELSE IF c.fam = "scenario3" THEN Scenario3Source
    ELSE NewlineSource(c.base, c.at)

(***************************************************************************)
(* The pipeline: Interpreter.run, one stage per step                       *)
(***************************************************************************)
EnvIdle ==
    /\ envs = GlobalsInit
    /\ stack = <<[env |-> 1, kind |-> "top"]>>
    /\ retval = NoneV
    /\ last = Idle
    /\ lastset = Idle
    /\ steps = 0

InitRun ==
    /\ EnvIdle
    /\ pc = "src"
    /\ case \in Cases
    /\ prog = Text(SourceOf(case))
    /\ tokens = << >>
    /\ ast = << >>
    /\ result = << >>

\* lexer = Lexer(code)
LexStep ==
    /\ pc = "src"
    /\ tokens' = Lexer(prog)
    /\ pc' = "lexed"
    /\ UNCHANGED <<envs, stack, retval, last, lastset, steps, case, prog, ast, result>>

\* ast = parser.parse()
ParseStep ==
    /\ pc = "lexed"
    /\ Parse(tokens).ok
    /\ ast' = Parse(tokens).node
    /\ pc' = "parsed"
    /\ UNCHANGED <<envs, stack, retval, last, lastset, steps, case, prog, tokens, result>>

\* parser.parse() raises
ParseError ==
    /\ pc = "lexed"
    /\ ~Parse(tokens).ok
    /\ result' = [status |-> Parse(tokens).err, out |-> << >>]
    /\ pc' = "syntax_error"
    /\ UNCHANGED <<envs, stack, retval, last, lastset, steps, case, prog, tokens, ast>>

\* self.exec_block(ast, self.globals)
RunStep ==
    /\ pc = "parsed"
    /\ LET r == Run(ast)
       IN  /\ result' = [status |-> r.status, out |-> r.out]
           /\ envs' = r.envs
    /\ pc' = "done"
    /\ UNCHANGED <<stack, retval, last, lastset, steps, case, prog, tokens, ast>>

NextRun == LexStep \/ ParseStep \/ ParseError \/ RunStep

SpecRun == InitRun /\ [][NextRun]_vars

(***************************************************************************)
(* Claims about the environment machine                                    *)
(***************************************************************************)
\* the frame of the innermost active scope
TopFrame == stack[Len(stack)]

\* C1: Environment.set(name, value) on scope E overwrites E's own binding, else
\* the nearest ancestor's binding (E gets none), else creates the binding in
\* E; all other bindings, all other environments and every parent pointer
\* are unchanged.
C1_SetFrame ==
    [][last'.op \in {"assign", "funcdef"} =>
          LET e == last'.env
              name == last'.name
              B == Binders(envs, e, name)
              \* position of scope s on the chain of e (1 = e itself)
              ChainPos(s) == CHOOSE i \in 1..Len(Chain(envs, e)) : Chain(envs, e)[i] = s
              \* the scope the set is specified to write
              t == IF B = {} THEN e
                   ELSE CHOOSE s \in B : \A u \in B : ChainPos(s) <= ChainPos(u)
          IN  /\ Len(envs') = Len(envs)
              /\ \A i \in 1..Len(envs) : envs'[i].parent = envs[i].parent
              /\ \A i \in 1..Len(envs) :
                    DOMAIN envs'[i].values =
                        (DOMAIN envs[i].values) \cup (IF i = t THEN {name} ELSE {})
              /\ \A i \in 1..Len(envs) : \A n \in DOMAIN envs[i].values :
                    (i # t \/ n # name) => envs'[i].values[n] = envs[i].values[n]
              /\ envs'[t].values[name] = last'.val]_vars

\* a set from a scope that does not bind the name wrote an ancestor's binding
C1_Witness ==
    /\ last.op = "assign"
    /\ last.env # 1
    /\ ~Bound(envs, last.env, last.name)
    /\ EnvGet(envs, envs[last.env].parent, last.name) = last.val

\* C2: after Assign(x, v) executed in a descendant of a scope S that binds x,
\* get(x) from any descendant of S returns v, as long as no other assignment
\* to x has run since.
C2_AssignVisible ==
    lastset.op = "assign" =>
        \A S \in lastset.binders : \A G \in 1..Len(envs) :
            S \in ChainSet(envs, G) => EnvGet(envs, G, lastset.name) = lastset.val

\* C3: a call creates a new environment whose parent is the closure, every
\* parameter is a key of the new environment bound to its argument, and no
\* existing environment (closure chain, globals, caller) is changed.
C3_ParamBinding ==
    [][last'.op = "call" =>
          LET L == last'.new
              fn == last'.fn
          IN  /\ Len(envs') = Len(envs) + 1
              /\ envs'[L].parent = fn.closure
              /\ \A i \in 1..Len(fn.params) :
                    /\ Bound(envs', L, fn.params[i])
                    /\ envs'[L].values[fn.params[i]] = last'.args[i]
              /\ \A e \in 1..Len(envs) : envs'[e] = envs[e]]_vars

C4_SignalNeedsLoop ==
    (pc \in {"done", "syntax_error"} /\ case.fam = "signal") => result.status # "ok"

\* C6: a return followed by "}" or EOF parses to Return(None), and the call of
\* a function that executes it yields null.
C6_BareReturn ==
    (case.fam = "bare_return" /\ case.end \in {"brace", "eof"}) =>
        /\ pc # "syntax_error"
        /\ pc \in {"parsed", "done"} =>
              IF case.end = "brace"
              THEN ast.statements[1].body.statements = <<Return(NoneNode)>>
              ELSE ast.statements[2] = Return(NoneNode)
        /\ (pc = "done" /\ case.end = "brace") =>
              result = [status |-> "ok", out |-> <<StrOf(NoneV)>>]

\* C7: for op in {+, -, *, /, %} on integer-valued operands (divisor not 0)
\* with an integer-valued result n, str(a op b) is the digits of n, 'x' +
\* (a op b) is x followed by them, and (a op b) + 1 prints as n + 1.
C7_IntegerNormalized ==
    LET op == case.op
        a == case.a
        b == case.b
        \* the mathematical value of a op b
        n == IF op = "+" THEN a + b
             ELSE IF op = "-" THEN a - b
             ELSE IF op = "*" THEN a * b
             ELSE IF op = "/" THEN a \div b
             ELSE a % b
    IN  (/\ pc = "done"
         /\ case.fam = "arith"
         /\ op \in {"/", "%"} => b # 0
         /\ op = "/" => a % b = 0)
        => result =
                [status |-> "ok",
                 out |-> << IF case.use = "str" THEN IntStr(n)
                            ELSE IF case.use = "concat" THEN <<"x">> \o IntStr(n)
                            ELSE IntStr(n + 1) >>]

C9_Scenario3 ==
    (pc \in {"done", "syntax_error"} /\ case.fam = "scenario3") =>
        result = [status |-> "ok", out |-> <<IntStr(1), IntStr(2), IntStr(4)>>]

\* parser.parse() of program b of NewlineBases as it is
BaseParse(b) == Parse(Lexer(Text(NewlineBase(b))))

====
